---- MODULE Spec2Model ----
(***************************************************************************)
(* Model of app.py: the Telegram ticker digest.                            *)
(*   - extract_tickers      (pattern based symbol extraction)              *)
(*   - store_message        (INSERT OR IGNORE into the messages table)     *)
(*   - load_messages_since  (SELECT ... WHERE message_date >= ? ORDER BY)  *)
(*   - build_digest / run_digest                                           *)
(*   - main / run_ingest / run_scheduler (one process in one mode)         *)
(* Strings are sequences of one-character strings.  An optional value      *)
(* (Python None or a value) is a sequence of length 0 or 1.                *)
(***************************************************************************)
EXTENDS Integers, Sequences, FiniteSets, TLC

\* ------------------------------------------------------------------ bounds
MaxTextLen == 7
MaxRows == 3

\* ------------------------------------------------------------ text helpers
None == <<>>
Some(v) == <<v>>

Range(s) == {s[i] : i \in 1..Len(s)}

RECURSIVE Concat(_)
Concat(ss) == IF ss = <<>> THEN <<>> ELSE Head(ss) \o Concat(Tail(ss))

LowerLetters ==
    <<"a","b","c","d","e","f","g","h","i","j","k","l","m",
      "n","o","p","q","r","s","t","u","v","w","x","y","z">>
UpperLetters ==
    <<"A","B","C","D","E","F","G","H","I","J","K","L","M",
      "N","O","P","Q","R","S","T","U","V","W","X","Y","Z">>
Digits == <<"0","1","2","3","4","5","6","7","8","9">>

UpperSet == Range(UpperLetters)
LowerSet == Range(LowerLetters)
DigitSet == Range(Digits)
ToUpper == [c \in LowerSet |-> UpperLetters[CHOOSE i \in 1..26 : LowerLetters[i] = c]]

IsUpperLatin(c) == c \in UpperSet
IsLowerLatin(c) == c \in LowerSet
IsDigit(c) == c \in DigitSet

\* str.upper(): a lowercase Latin letter becomes its capital, every other
\* character of the modelled alphabet is left alone.
upper_char_mut(c) == c

upper_char(c) == IF IsLowerLatin(c) THEN ToUpper[c] ELSE c
upper(s) == [i \in 1..Len(s) |-> upper_char(s[i])]

\* \w of the re module on str patterns: letters, digits and the underscore.
IsWordChar_mut(c) == IsUpperLatin(c) \/ IsLowerLatin(c)

IsWordChar(c) == IsUpperLatin(c) \/ IsLowerLatin(c) \/ IsDigit(c) \/ c = "_"

\* \b before position i (1-based; i = Len(s)+1 is the end of the string).
WordBoundary(s, i) ==
    LET before == i > 1 /\ IsWordChar(s[i - 1])
        after == i <= Len(s) /\ IsWordChar(s[i])
    IN before # after

\* ------------------------------------------------------------- constants
STOPWORDS == {
    <<"T","H","E">>,
    <<"A","N","D">>,
    <<"F","O","R">>,
    <<"W","I","T","H">>,
    <<"T","H","I","S">>,
    <<"T","H","A","T">>,
    <<"F","R","O","M">>,
    <<"Y","O","U","R">>,
    <<"A","B","O","U","T">>,
    <<"W","H","A","T">>,
    <<"W","H","E","N">>,
    <<"W","H","E","R","E">>,
    <<"H","O","W">>,
    <<"W","I","L","L">>,
    <<"H","A","V","E">>,
    <<"J","U","S","T">>,
    <<"L","I","K","E">>,
    <<"C","O","I","N">>,
    <<"T","O","K","E","N">>,
    <<"G","R","O","U","P">>,
    <<"C","H","A","N","N","E","L">> }

TickerMinLen == 2
TickerMaxLen == 6

\* --------------------------------------------------------- TICKER_REGEX
\* (?:\$|#)?\b([A-Z]{2,6})\b
\* [A-Z]{2,6} from position i, greedy: the longest k in 2..6 for which
\* s[i..i+k-1] are capitals and \b holds after them; 0 when none does.
GroupLen_mut(s, i) ==
    LET ks == {k \in TickerMinLen..TickerMaxLen :
                  /\ i + k - 1 <= Len(s)
                  /\ \A j \in i..(i + k - 1) : IsUpperLatin(s[j])}
    IN IF ks = {} THEN 0 ELSE CHOOSE k \in ks : \A k2 \in ks : k2 <= k

GroupLen(s, i) ==
    LET ks == {k \in TickerMinLen..TickerMaxLen :
                  /\ i + k - 1 <= Len(s)
                  /\ \A j \in i..(i + k - 1) : IsUpperLatin(s[j])
                  /\ WordBoundary(s, i + k)}
    IN IF ks = {} THEN 0 ELSE CHOOSE k \in ks : \A k2 \in ks : k2 <= k

\* One attempt of the pattern at position pos: the optional marker is tried
\* first, then the pattern without it.  Result: [start, len] of group 1,
\* len = 0 when the pattern does not match at pos.
MatchAt(s, pos) ==
    LET withMarker ==
            IF pos <= Len(s) /\ s[pos] \in {"$", "#"} /\ WordBoundary(s, pos + 1)
            THEN GroupLen(s, pos + 1) ELSE 0
        bare ==
            IF WordBoundary(s, pos) THEN GroupLen(s, pos) ELSE 0
    IN IF withMarker > 0 THEN [start |-> pos + 1, len |-> withMarker]
       ELSE [start |-> pos, len |-> bare]

\* TICKER_REGEX.finditer(s): non-overlapping matches, left to right: the
\* scan goes to the first position at or after pos where the pattern matches
\* and resumes at the end of that match.  The sequence of group(1) values.
RECURSIVE finditer(_, _)
finditer(s, pos) ==
    LET starts == {p \in pos..Len(s) : MatchAt(s, p).len > 0}
    IN IF starts = {} THEN <<>>
       ELSE LET first == CHOOSE p \in starts : \A q \in starts : p <= q
                m == MatchAt(s, first)
            IN <<SubSeq(s, m.start, m.start + m.len - 1)>>
                   \o finditer(s, m.start + m.len)

\* ------------------------------------------------------ extract_tickers
\* text is an optional string: None, or Some(<<characters>>).
Falsy_mut(text) == text = None

Falsy(text) == text = None \/ text = Some(<<>>)

extract_tickers(text) ==
    IF Falsy(text) THEN <<>>
    ELSE LET candidates == finditer(upper(text[1]), 1)
         IN SelectSeq(candidates, LAMBDA ticker : ticker \notin STOPWORDS)

\* ------------------------------------------------- inputs of the extractor
ExtractAlphabet == {"T", "h", "E", "$", "1"}

\* Letters, a digit, the underscore, both markers and a separator.
WideAlphabet == {"T", "e", "1", "_", "$", "#", " "}

RECURSIVE Strings(_, _)
Strings(alphabet, n) ==
    IF n = 0 THEN {<<>>}
    ELSE LET shorter == Strings(alphabet, n - 1)
         IN shorter \cup {Append(s, c) : s \in {t \in shorter : Len(t) = n - 1},
                                         c \in alphabet}

TextBtcEth ==
    <<"B","u","y"," ","$","B","T","C"," ","a","n","d"," ","$","E","T","H"," ",
      "n","o","w",","," ","$","B","T","C"," ","a","g","a","i","n">>
TextStopwords ==
    <<"T","H","E"," ","G","R","O","U","P"," ","l","i","k","e","s"," ","B","T","C">>
TextBoundary == <<"A"," ","B","I","T","C","O","I","N","X">>
TextMarkers ==
    <<"#","S","O","L"," ","$"," ","#"," ","$","$","X","R","P"," ","a","_","B","T","C",
      " ","E","T","H","9","\n","D","O","G","E",".">>

TextMixed == <<"x"," ","B","I","T","C","O","I","N","X"," ","e","t","h">>

ExampleTexts == {TextBtcEth, TextStopwords, TextBoundary, TextMarkers, TextMixed}

\* The arguments tried: None, the examples and every string over alphabet of
\* at most n characters.
ExtractInputs(alphabet, n) ==
    {None} \cup {Some(s) : s \in Strings(alphabet, n) \cup ExampleTexts}

\* -------------------------------------------------------------- datetime
\* A datetime is [sec, us, aware]: sec counts the seconds of its wall clock
\* since 2024-01-01T00:00:00, us is the microsecond, aware tells whether it
\* carries tzinfo=UTC (Telethon's message.date) or is naive (datetime.now()).
SecondsPerDay == 86400

Pad2(n) == <<Digits[((n \div 10) % 10) + 1], Digits[(n % 10) + 1]>>
Pad6(n) == Pad2(n \div 10000) \o Pad2((n \div 100) % 100) \o Pad2(n % 100)

DatePart(dt) ==
    <<"2","0","2","4","-","0","1","-">> \o Pad2(dt.sec \div SecondsPerDay + 1)
HourPart(dt) == Pad2((dt.sec % SecondsPerDay) \div 3600)
MinutePart(dt) == Pad2((dt.sec % 3600) \div 60)
SecondPart(dt) == Pad2(dt.sec % 60)

\* datetime.isoformat(): YYYY-MM-DDTHH:MM:SS[.ffffff][+00:00]; the fraction
\* is printed only when the microsecond is not 0, the offset only for an
\* aware datetime.
isoformat(dt) ==
    DatePart(dt) \o <<"T">> \o HourPart(dt) \o <<":">> \o MinutePart(dt)
        \o <<":">> \o SecondPart(dt)
        \o (IF dt.us # 0 THEN <<".">> \o Pad6(dt.us) ELSE <<>>)
        \o (IF dt.aware THEN <<"+","0","0",":","0","0">> ELSE <<>>)

\* strftime('%Y-%m-%d %H:%M')
strftime(dt) ==
    DatePart(dt) \o <<" ">> \o HourPart(dt) \o <<":">> \o MinutePart(dt)

\* datetime.now(): the naive local wall clock, utc being the UTC instant
\* [sec, us] and offset the UTC offset of the host's time zone in seconds.
datetime_now(utc, offset) ==
    [sec |-> utc.sec + offset, us |-> utc.us, aware |-> FALSE]

\* dt - timedelta(days=1)
MinusOneDay(dt) == [dt EXCEPT !.sec = dt.sec - SecondsPerDay]

\* Code points of the characters isoformat produces.
Ord(c) ==
    CASE c = "+" -> 43
      [] c = "-" -> 45
      [] c = "." -> 46
      [] c = ":" -> 58
      [] c = "T" -> 84
      [] OTHER -> 48 + (CHOOSE d \in 0..9 : Digits[d + 1] = c)

\* SQLite's BINARY collation on TEXT: memcmp, then the shorter string first.
RECURSIVE TextLess(_, _)
TextLess(a, b) ==
    IF b = <<>> THEN FALSE
    ELSE IF a = <<>> THEN TRUE
    ELSE IF Ord(Head(a)) # Ord(Head(b)) THEN Ord(Head(a)) < Ord(Head(b))
    ELSE TextLess(Tail(a), Tail(b))

TextGeq(a, b) == ~TextLess(a, b)

\* ------------------------------------------------------------ input pools
\* The instant the windows of the model turn around: 2024-01-02T12:00:00.
T0 == SecondsPerDay + 12 * 3600

UtcDate(sec, us) == [sec |-> sec, us |-> us, aware |-> TRUE]

\* (chat_id, message.id) of the inbound messages.
MessageKeys == {<<1, 1>>, <<1, 2>>, <<2, 1>>}
Writers == {"w1", "w2"}

\* UTC offsets of the host's local time zone, in seconds.
TzOffsets == {0, 3600}

\* UTC instants at which datetime.now() is read, in increasing order.
NowPool == << [sec |-> T0 + SecondsPerDay, us |-> 0],
              [sec |-> T0 + SecondsPerDay, us |-> 250000],
              [sec |-> T0 + SecondsPerDay + 60, us |-> 0] >>

TitleAlpha == <<"A","l","p","h","a">>
TextBTC == <<"B","T","C">>
TextETH == <<"e","t","h">>

\* event.message as store_message reads it: chat_id, chat.title, id,
\* sender_id, date, message.
Message(c, t, i, s, d, m) ==
    [chat_id |-> c, chat_title |-> t, id |-> i, sender_id |-> s,
     date |-> d, message |-> m]

\* The row the INSERT binds (lines 110-117).
RowOf(message) ==
    [chat_id |-> message.chat_id,
     chat_title |-> message.chat_title,
     message_id |-> message.id,
     sender_id |-> message.sender_id,
     message_date |-> isoformat(message.date),
     text |-> message.message]

Messages ==
    {Message(k[1], None, k[2], None, UtcDate(T0, 0), Some(TextBTC)) :
        k \in MessageKeys}
    \cup {Message(k[1], Some(TitleAlpha), k[2], Some(7), UtcDate(T0 - 1, 0), Some(TextETH)) :
        k \in MessageKeys}
    \cup {Message(k[1], Some(TitleAlpha), k[2], Some(7), UtcDate(T0, 0), m) :
        k \in MessageKeys, m \in {None, Some(<<>>)}}

\* ----------------------------------------------------- build_digest parts
TopN == 15
MaxSamples == 3
PreviewLen == 160

Repeat(c, n) == [i \in 1..n |-> c]

\* text or ""
OrEmpty(text) == IF text = None THEN <<>> ELSE text[1]

\* str.strip(): leading and trailing whitespace removed.
IsSpace(c) == c \in {" ", "\n", "\t", "\r"}

RECURSIVE lstrip(_)
lstrip(s) == IF s # <<>> /\ IsSpace(Head(s)) THEN lstrip(Tail(s)) ELSE s

RECURSIVE rstrip(_)
rstrip(s) ==
    IF s # <<>> /\ IsSpace(s[Len(s)]) THEN rstrip(SubSeq(s, 1, Len(s) - 1)) ELSE s

strip(s) == rstrip(lstrip(s))

\* (text or "").strip().replace("\n", " ")
Preview(text) ==
    LET stripped == strip(OrEmpty(text))
    IN [i \in 1..Len(stripped) |-> IF stripped[i] = "\n" THEN " " ELSE stripped[i]]

\* preview[:160]
Truncate(s) == SubSeq(s, 1, IF Len(s) < PreviewLen THEN Len(s) ELSE PreviewLen)

\* A Counter / defaultdict is a sequence of entries in key insertion order.
HasKey(d, key) == \E k \in 1..Len(d) : d[k].ticker = key
IndexOfKey(d, key) == CHOOSE k \in 1..Len(d) : d[k].ticker = key

\* ticker_counts[ticker] += 1
Increment(counts, ticker) ==
    IF HasKey(counts, ticker)
    THEN [counts EXCEPT ![IndexOfKey(counts, ticker)].count = @ + 1]
    ELSE Append(counts, [ticker |-> ticker, count |-> 1])

\* ticker_samples[ticker] read through the defaultdict: a missing key is
\* inserted with an empty list.
Touch(samples, ticker) ==
    IF HasKey(samples, ticker) THEN samples
    ELSE Append(samples, [ticker |-> ticker, samples |-> <<>>])

SamplesOf(samples, ticker) ==
    IF HasKey(samples, ticker) THEN samples[IndexOfKey(samples, ticker)].samples
    ELSE <<>>

\* Lines 145-148 for one ticker of one row.
AddSample_mut(samples, ticker, text) ==
    LET touched == Touch(samples, ticker)
        k == IndexOfKey(touched, ticker)
    IN IF Preview(text) # <<>>
       THEN [touched EXCEPT ![k].samples = Append(@, Truncate(Preview(text)))]
       ELSE touched

\* A sample is added only when the list does not hold it yet.
AddSample_distinct(samples, ticker, text) ==
    LET touched == Touch(samples, ticker)
        k == IndexOfKey(touched, ticker)
        sample == Truncate(Preview(text))
    IN IF /\ Len(touched[k].samples) < MaxSamples
          /\ Preview(text) # <<>>
          /\ \A a \in 1..Len(touched[k].samples) : touched[k].samples[a] # sample
       THEN [touched EXCEPT ![k].samples = Append(@, sample)]
       ELSE touched

AddSample(samples, ticker, text) ==
    LET touched == Touch(samples, ticker)
        k == IndexOfKey(touched, ticker)
    IN IF Len(touched[k].samples) < MaxSamples /\ Preview(text) # <<>>
       THEN [touched EXCEPT ![k].samples = Append(@, Truncate(Preview(text)))]
       ELSE touched

\* Counter.most_common(n) = sorted(items, key=count, reverse=True)[:n]; the
\* sort is stable, so entries with equal counts keep their insertion order.
RECURSIVE StableSortDesc(_)
StableSortDesc(items) ==
    IF items = <<>> THEN <<>>
    ELSE LET sortedInit == StableSortDesc(SubSeq(items, 1, Len(items) - 1))
             last == items[Len(items)]
             \* last goes behind every entry whose count is at least its own
             keep == Cardinality({k \in 1..Len(sortedInit) :
                                     sortedInit[k].count >= last.count})
         IN SubSeq(sortedInit, 1, keep) \o <<last>>
                \o SubSeq(sortedInit, keep + 1, Len(sortedInit))

most_common_mut(counts, n) ==
    SubSeq(counts, 1, IF Len(counts) < n THEN Len(counts) ELSE n)

most_common(counts, n) ==
    LET sorted == StableSortDesc(counts)
    IN SubSeq(sorted, 1, IF Len(sorted) < n THEN Len(sorted) ELSE n)

\* The report is the sequence of its lines.
LiteralLine(t) == [kind |-> "literal", text |-> t]
WindowLine(from, to) == [kind |-> "window", since |-> from, now |-> to]
TickerLine(ticker, count) == [kind |-> "ticker", ticker |-> ticker, count |-> count]
SampleLine(sample) == [kind |-> "sample", sample |-> sample]

NoMentionsReport ==
    << LiteralLine("Daily Telegram Ticker Digest"),
       LiteralLine(""),
       LiteralLine("No ticker mentions found in the last 24 hours.") >>

\* Lines 159-163: the block of one ticker.
TickerBlock(entry, samples) ==
    <<TickerLine(entry.ticker, entry.count)>>
        \o [k \in 1..Len(SamplesOf(samples, entry.ticker)) |->
               SampleLine(SamplesOf(samples, entry.ticker)[k])]
        \o <<LiteralLine("")>>

\* "\n".join(lines).strip(): the trailing blank line goes, and so does the
\* whitespace at the end of the last line (a sample cut at 160 characters can
\* end in a blank).
StripReport(lines) ==
    LET n == Len(lines) - 1
        last == lines[n]
    IN IF last.kind = "sample"
       THEN [lines EXCEPT ![n] = SampleLine(rstrip(last.sample))] 
       ELSE lines

JoinStrip(lines) == SubSeq(StripReport(lines), 1, Len(lines) - 1)

\* Lines 150-165 of build_digest: the report for the aggregated counters,
\* nowLocal being the value of the second datetime.now().
Render_mut(counts, samples, sinceDt, nowLocal) ==
    LET top == most_common(counts, TopN)
    IN JoinStrip(
           << LiteralLine("Daily Telegram Ticker Digest"),
              WindowLine(strftime(sinceDt), strftime(nowLocal)),
              LiteralLine("") >>
           \o Concat([k \in 1..Len(top) |-> TickerBlock(top[k], samples)]))

Render(counts, samples, sinceDt, nowLocal) ==
    IF counts = <<>> THEN NoMentionsReport
    ELSE LET top == most_common(counts, TopN)
         IN JoinStrip(
                << LiteralLine("Daily Telegram Ticker Digest"),
                   WindowLine(strftime(sinceDt), strftime(nowLocal)),
                   LiteralLine("") >>
                \o Concat([k \in 1..Len(top) |-> TickerBlock(top[k], samples)]))

\* ---------------------------------------------------- load_messages_since
\* The rows with message_date >= since.isoformat() (as TEXT), projected on
\* (chat_title, message_date, text), ascending by message_date.  SQL leaves
\* the order of rows with equal message_date open: every such order is a
\* possible result.
Projected(row) ==
    [chat_title |-> row.chat_title, message_date |-> row.message_date,
     text |-> row.text]

Selected(table, sinceDt) ==
    {k \in 1..Len(table) : TextGeq(table[k].message_date, isoformat(sinceDt))}

load_messages_since(table, sinceDt) ==
    LET sel == Selected(table, sinceDt)
        n == Cardinality(sel)
        orders == {p \in [1..n -> sel] :
                      /\ \A a, b \in 1..n : a # b => p[a] # p[b]
                      /\ \A a \in 1..(n - 1) :
                            ~TextLess(table[p[a + 1]].message_date,
                                      table[p[a]].message_date)}
    IN {[a \in 1..n |-> Projected(table[p[a]])] : p \in orders}

\* ----------------------------------------------- inputs of the aggregator
SymbolCount == TopN + 1

\* "BTC AA AB AC ... AP ": BTC and sixteen more symbols, more than the report
\* lists.
TextManySymbols ==
    <<"B","T","C"," ">> \o Concat([k \in 1..SymbolCount |-> <<"A", UpperLetters[k], " ">>])

\* Four mentions of BTC, a line break, and more than 160 characters.
TextLong ==
    <<" ","B","T","C"," ","B","T","C"," ","B","T","C"," ","B","T","C","\r","\n">>
        \o Repeat(".", 142) \o <<" ">> \o Repeat(".", 20) \o <<" ","E","T","H"," ">>

TextTwice == <<"e","t","h"," ","B","T","C","\n","$","E","T","H">>
TextBlank == <<" ","\n"," ">>

DigestMessages ==
    << Message(1, None, 1, None, UtcDate(T0 - 1, 0), Some(TextStopwords)),
       Message(1, Some(TitleAlpha), 2, Some(7), UtcDate(T0, 0), Some(TextBTC)),
       Message(1, None, 3, None, UtcDate(T0, 0), Some(TextBlank)),
       Message(1, None, 4, Some(7), UtcDate(T0, 500000), Some(TextTwice)),
       Message(1, None, 5, None, UtcDate(T0 + 30, 0), Some(TextLong)),
       Message(1, None, 6, None, UtcDate(T0 + 1800, 0), Some(TextBTC)),
       Message(1, None, 7, None, UtcDate(T0 + 7200, 0), Some(TextManySymbols)) >>

\* The tables store_message builds from at most n of the given messages,
\* delivered in any order.
StoresOf(messages, n) ==
    UNION {
        {[k \in 1..m |-> RowOf(messages[p[k]])] :
            p \in {q \in [1..m -> 1..Len(messages)] :
                      \A a, b \in 1..m : a # b => q[a] # q[b]}} :
        m \in 0..n}

\* ------------------------------------------------------------------ state
VARIABLES
    store,      \* the messages table: committed rows in rowid order
    dbUp,       \* whether DB_PATH can be opened, read and written
    lock,       \* the connection holding SQLite's write lock, if any
    wpc,        \* per writer: position inside store_message
    wmsg,       \* per writer: the message being stored
    pending,    \* per writer: the changes of its open transaction, if any
    wout,       \* per writer: how its last store_message call ended
    tz,         \* UTC offset of the host's local time zone (seconds)
    clock,      \* index into NowPool: the current UTC instant
    dpc,        \* run_digest: "idle", "load", "aggregate", "send", "done", "failed"
    since,      \* run_digest: since
    rows,       \* build_digest: rows
    ri,         \* build_digest: number of rows the outer loop has taken up
    tickers,    \* build_digest: tickers of the current row still to count
    ticker_counts,   \* build_digest: the Counter
    ticker_samples,  \* build_digest: the defaultdict of sample lists
    digest,     \* run_digest: the report build_digest returned
    sent,       \* what send_message delivered to target_chat, if anything
    xpc,        \* extractor harness: "call" before, "done" after the call
    xtext,      \* the argument of extract_tickers
    xresult,    \* its return value
    mode,       \* main: the mode of the process, "ingest", "digest" or "schedule"
    mpc,        \* main: "off", "start", "running", "exited" or "crashed"
    handler,    \* whether a NewMessage handler is registered on the client
    scheduled,  \* whether the cron job is added and the scheduler started
    inbox,      \* events whose handler call is pending, oldest first
    arrived,    \* (chat_id, id) of the events received while connected
    handled,    \* the handler calls that ended, in order: pair and outcome
    lastJob     \* how the scheduler's last run of the job ended

storeVars == <<store, dbUp, lock, wpc, wmsg, pending, wout>>
timeVars == <<tz, clock>>
digestVars == <<dpc, since, rows, ri, tickers, ticker_counts, ticker_samples,
                digest, sent>>
extractVars == <<xpc, xtext, xresult>>
sysVars == <<mode, mpc, handler, scheduled, inbox, arrived, handled, lastJob>>
vars == <<storeVars, timeVars, digestVars, extractVars, sysVars>>

NoMessage == Message(0, None, 0, None, UtcDate(0, 0), None)

\* init_db(): CREATE TABLE IF NOT EXISTS / CREATE UNIQUE INDEX IF NOT EXISTS
\* on an existing table changes nothing; the state after the first init_db
\* is the empty table.
init_db == <<>>

InitStore ==
    /\ store = init_db
    /\ dbUp = TRUE
    /\ lock = None
    /\ wpc = [w \in Writers |-> "idle"]
    /\ wmsg = [w \in Writers |-> NoMessage]
    /\ pending = [w \in Writers |-> None]
    /\ wout = [w \in Writers |-> "none"]

InitTime ==
    /\ tz \in TzOffsets
    /\ clock = 1

NoDate == [sec |-> 0, us |-> 0, aware |-> FALSE]

InitDigestIdle ==
    /\ dpc = "idle"
    /\ since = NoDate
    /\ rows = <<>>
    /\ ri = 0
    /\ tickers = <<>>
    /\ ticker_counts = <<>>
    /\ ticker_samples = <<>>
    /\ digest = <<>>
    /\ sent = None

InitExtractIdle ==
    /\ xpc = "off"
    /\ xtext = None
    /\ xresult = <<>>

\* No process of app.py is started: the functions are called on their own.
InitSystemIdle ==
    /\ mode = "none"
    /\ mpc = "off"
    /\ handler = FALSE
    /\ scheduled = FALSE
    /\ inbox = <<>>
    /\ arrived = {}
    /\ handled = <<>>
    /\ lastJob = "none"

\* --------------------------------------------------------- store_message
\* The unique index messages_unique ON messages(chat_id, message_id).
Conflicts_mut(row, table) == FALSE

Conflicts(row, table) ==
    \E k \in 1..Len(table) :
        /\ table[k].chat_id = row.chat_id
        /\ table[k].message_id = row.message_id

\* SQLite lets one connection at a time hold the write lock.
WriteLockFree_mut(w) == TRUE

WriteLockFree(w) == lock = None

\* store_message up to sqlite3.connect: the early return on empty text, the
\* failure to open the database, or the open connection.
StoreCall(w, message) ==
    /\ wpc[w] = "idle"
    /\ IF Falsy(message.message)
       THEN /\ wout' = [wout EXCEPT ![w] = "returned"]
            /\ UNCHANGED <<wpc, wmsg>>
       ELSE IF ~dbUp
       THEN /\ wout' = [wout EXCEPT ![w] = "raised"]
            /\ UNCHANGED <<wpc, wmsg>>
       ELSE /\ wpc' = [wpc EXCEPT ![w] = "insert"]
            /\ wmsg' = [wmsg EXCEPT ![w] = message]
            /\ wout' = [wout EXCEPT ![w] = "none"]
    /\ UNCHANGED <<store, dbUp, lock, pending, timeVars, digestVars, extractVars, sysVars>>

\* INSERT OR IGNORE of row into table: the changes of the statement, the
\* rowids it deletes and the rows it adds.  A row whose (chat_id, message_id)
\* is in the unique index is skipped.
InsertOrIgnore_mut(row, table) ==
    [del |-> {k \in 1..Len(table) : Conflicts(table[k], <<row>>)},
     ins |-> <<row>>]

InsertOrIgnore(row, table) ==
    IF Conflicts(row, table) THEN [del |-> {}, ins |-> <<>>]
    ELSE [del |-> {}, ins |-> <<row>>]

\* The table after a transaction's changes are committed.
Survivors(table, del) ==
    LET tagged == [k \in 1..Len(table) |-> <<k, table[k]>>]
        kept == SelectSeq(tagged, LAMBDA e : e[1] \notin del)
    IN [k \in 1..Len(kept) |-> kept[k][2]]

Committed(table, changes) == Survivors(table, changes.del) \o changes.ins

\* conn.execute(INSERT OR IGNORE ...): takes the write lock, then runs the
\* statement inside the connection's open transaction.
StoreInsert(w) ==
    /\ wpc[w] = "insert"
    /\ dbUp
    /\ WriteLockFree(w)
    /\ lock' = Some(w)
    /\ pending' = [pending EXCEPT ![w] = Some(InsertOrIgnore(RowOf(wmsg[w]), store))]
    /\ wpc' = [wpc EXCEPT ![w] = "commit"]
    /\ UNCHANGED <<store, dbUp, wmsg, wout, timeVars, digestVars, extractVars, sysVars>>

\* conn.execute while another connection holds the write lock: after the busy
\* timeout sqlite3 raises OperationalError (database is locked).
StoreBusy(w) ==
    /\ wpc[w] = "insert"
    /\ lock # None
    /\ lock # Some(w)
    /\ wpc' = [wpc EXCEPT ![w] = "idle"]
    /\ wmsg' = [wmsg EXCEPT ![w] = NoMessage]
    /\ wout' = [wout EXCEPT ![w] = "raised"]
    /\ UNCHANGED <<store, dbUp, lock, pending, timeVars, digestVars, extractVars, sysVars>>

\* conn.commit(): the transaction's changes become durable and visible, the
\* write lock is released and store_message returns.
StoreCommit(w) ==
    /\ wpc[w] = "commit"
    /\ dbUp
    /\ store' = Committed(store, pending[w][1])
    /\ lock' = IF lock = Some(w) THEN None ELSE lock
    /\ pending' = [pending EXCEPT ![w] = None]
    /\ wpc' = [wpc EXCEPT ![w] = "idle"]
    /\ wmsg' = [wmsg EXCEPT ![w] = NoMessage]
    /\ wout' = [wout EXCEPT ![w] = "returned"]
    /\ UNCHANGED <<dbUp, timeVars, digestVars, extractVars, sysVars>>

\* execute or commit on a database that became unreachable: the statement
\* raises, closing() closes the connection and the open transaction is
\* rolled back.
StoreFail(w) ==
    /\ wpc[w] \in {"insert", "commit"}
    /\ ~dbUp
    /\ lock' = IF lock = Some(w) THEN None ELSE lock
    /\ pending' = [pending EXCEPT ![w] = None]
    /\ wpc' = [wpc EXCEPT ![w] = "idle"]
    /\ wmsg' = [wmsg EXCEPT ![w] = NoMessage]
    /\ wout' = [wout EXCEPT ![w] = "raised"]
    /\ UNCHANGED <<store, dbUp, timeVars, digestVars, extractVars, sysVars>>

\* The environment: the database file becomes unreachable or reachable.
DbDown ==
    /\ dbUp
    /\ dbUp' = FALSE
    /\ UNCHANGED <<store, lock, wpc, wmsg, pending, wout, timeVars, digestVars, extractVars, sysVars>>

DbBack ==
    /\ ~dbUp
    /\ dbUp' = TRUE
    /\ UNCHANGED <<store, lock, wpc, wmsg, pending, wout, timeVars, digestVars, extractVars, sysVars>>

\* The wall clock advances.
Tick ==
    /\ clock < Len(NowPool)
    /\ clock' = clock + 1
    /\ UNCHANGED <<storeVars, tz, digestVars, extractVars, sysVars>>

InitStoreSpec ==
    InitStore /\ InitTime /\ InitDigestIdle /\ InitExtractIdle /\ InitSystemIdle

NextStore ==
    \/ \E w \in Writers, message \in Messages : StoreCall(w, message)
    \/ \E w \in Writers : StoreInsert(w)
    \/ \E w \in Writers : StoreBusy(w)
    \/ \E w \in Writers : StoreCommit(w)
    \/ \E w \in Writers : StoreFail(w)
    \/ DbDown
    \/ DbBack

SpecStore == InitStoreSpec /\ [][NextStore]_vars

\* ------------------------------------------------ run_digest, build_digest
\* run_digest, lines 180-181: init_db() and since = now - 1 day.  init_db on
\* an unreachable database raises and run_digest fails before it builds
\* anything.
RunDigest ==
    /\ dpc = "idle"
    /\ IF dbUp
       THEN /\ since' = MinusOneDay(datetime_now(NowPool[clock], tz))
            /\ dpc' = "load"
       ELSE /\ since' = since
            /\ dpc' = "failed"
    /\ UNCHANGED <<rows, ri, tickers, ticker_counts, ticker_samples, digest, sent,
                   storeVars, timeVars, extractVars, sysVars>>

\* build_digest, lines 137-139: the rows of the window and empty counters.
LoadRows_mut ==
    /\ dpc = "load"
    /\ dbUp
    /\ rows' \in load_messages_since(store, since)
    /\ store' = SelectSeq(store, LAMBDA row :
                              TextLess(row.message_date, isoformat(since)))
    /\ ri' = 0
    /\ tickers' = <<>>
    /\ ticker_counts' = <<>>
    /\ ticker_samples' = <<>>
    /\ dpc' = "aggregate"
    /\ UNCHANGED <<since, digest, sent, dbUp, lock, wpc, wmsg, pending, wout,
                   timeVars, extractVars, sysVars>>

LoadRows ==
    /\ dpc = "load"
    /\ dbUp
    /\ rows' \in load_messages_since(store, since)
    /\ ri' = 0
    /\ tickers' = <<>>
    /\ ticker_counts' = <<>>
    /\ ticker_samples' = <<>>
    /\ dpc' = "aggregate"
    /\ UNCHANGED <<since, digest, sent, storeVars, timeVars, extractVars, sysVars>>

\* The SELECT on an unreachable database raises; nothing in build_digest or
\* run_digest catches it.
LoadFail_mut ==
    /\ dpc = "load"
    /\ ~dbUp
    /\ rows' = <<>>
    /\ dpc' = "aggregate"
    /\ UNCHANGED <<since, ri, tickers, ticker_counts, ticker_samples, digest,
                   sent, storeVars, timeVars, extractVars, sysVars>>

LoadFail ==
    /\ dpc = "load"
    /\ ~dbUp
    /\ dpc' = "failed"
    /\ UNCHANGED <<since, rows, ri, tickers, ticker_counts, ticker_samples, digest,
                   sent, storeVars, timeVars, extractVars, sysVars>>

\* Lines 141-142: the outer loop takes the next row and extracts its tickers.
NextRow ==
    /\ dpc = "aggregate"
    /\ tickers = <<>>
    /\ ri < Len(rows)
    /\ ri' = ri + 1
    /\ tickers' = extract_tickers(Some(OrEmpty(rows[ri + 1].text)))
    /\ UNCHANGED <<dpc, since, rows, ticker_counts, ticker_samples, digest, sent,
                   storeVars, timeVars, extractVars, sysVars>>

\* Lines 143-148: one iteration of the inner loop.
CountTicker ==
    /\ dpc = "aggregate"
    /\ tickers # <<>>
    /\ ticker_counts' = Increment(ticker_counts, Head(tickers))
    /\ ticker_samples' = AddSample(ticker_samples, Head(tickers), rows[ri].text)
    /\ tickers' = Tail(tickers)
    /\ UNCHANGED <<dpc, since, rows, ri, digest, sent,
                   storeVars, timeVars, extractVars, sysVars>>

\* Lines 150-165: the loops are over, the report is rendered (reading
\* datetime.now() again) and returned to run_digest.
RenderDigest ==
    /\ dpc = "aggregate"
    /\ tickers = <<>>
    /\ ri = Len(rows)
    /\ digest' = Render(ticker_counts, ticker_samples, since,
                        datetime_now(NowPool[clock], tz))
    /\ dpc' = "send"
    /\ UNCHANGED <<since, rows, ri, tickers, ticker_counts, ticker_samples, sent,
                   storeVars, timeVars, extractVars, sysVars>>

\* run_digest, line 183: send_message delivers the report.
SendDigest ==
    /\ dpc = "send"
    /\ sent' = Some(digest)
    /\ dpc' = "done"
    /\ UNCHANGED <<since, rows, ri, tickers, ticker_counts, ticker_samples, digest,
                   storeVars, timeVars, extractVars, sysVars>>

\* send_message raises (the chat network is down): run_digest fails.
SendFail ==
    /\ dpc = "send"
    /\ dpc' = "failed"
    /\ UNCHANGED <<since, rows, ri, tickers, ticker_counts, ticker_samples, digest,
                   sent, storeVars, timeVars, extractVars, sysVars>>

\* build_digest over the tables store_message can build: the table, the
\* host's UTC offset and the instant of the run are the inputs.
InitDigest ==
    /\ store \in StoresOf(DigestMessages, MaxRows)
    /\ dbUp = TRUE
    /\ lock = None
    /\ wpc = [w \in Writers |-> "idle"]
    /\ wmsg = [w \in Writers |-> NoMessage]
    /\ pending = [w \in Writers |-> None]
    /\ wout = [w \in Writers |-> "none"]
    /\ tz \in TzOffsets
    /\ clock = 1
    /\ InitDigestIdle
    /\ InitExtractIdle
    /\ InitSystemIdle

NextDigest ==
    \/ RunDigest
    \/ LoadRows
    \/ NextRow
    \/ CountTicker
    \/ RenderDigest
    \/ SendDigest
    \/ SendFail
    \/ Tick

SpecDigest == InitDigest /\ [][NextDigest]_vars

\* ------------------------------------------------ extract_tickers harness
InitExtract ==
    /\ InitStore
    /\ tz = 0
    /\ clock = 1
    /\ InitDigestIdle
    /\ xpc = "call"
    /\ \/ xtext \in ExtractInputs(ExtractAlphabet, MaxTextLen)
       \/ xtext \in ExtractInputs(WideAlphabet, MaxTextLen - 2)
    /\ xresult = <<>>
    /\ InitSystemIdle

CallExtract ==
    /\ xpc = "call"
    /\ xresult' = extract_tickers(xtext)
    /\ xpc' = "done"
    /\ UNCHANGED <<xtext, storeVars, timeVars, digestVars, sysVars>>

NextExtract == CallExtract

SpecExtract == InitExtract /\ [][NextExtract]_vars

\* ------------------------------------------ main, run_ingest, run_scheduler
\* One process of app.py in one of its modes, with its client connected
\* (mpc = "running" stands for the await inside "async with client"), and a
\* second process that stores messages into the same DB_PATH.
Modes == {"ingest", "digest", "schedule"}

Handler == "w1"
Peer == "w2"

\* The events the chat network delivers to the process.
SysMessages ==
    { Message(1, None, 1, None, UtcDate(T0, 0), Some(TextBTC)),
      Message(1, Some(TitleAlpha), 2, Some(7), UtcDate(T0 + 30, 0), Some(TextETH)),
      Message(2, None, 1, None, UtcDate(T0, 0), None) }

\* The message the second process stores.
PeerMessages ==
    { Message(1, Some(TitleAlpha), 1, None, UtcDate(T0 + 60, 0), Some(TextTwice)) }

\* The table earlier runs have left behind.
SysStores ==
    { init_db,
      <<RowOf(Message(3, None, 1, None, UtcDate(T0 + 1, 0), Some(TextBTC)))>> }

EventKey(message) == <<message.chat_id, message.id>>

InitSystem ==
    /\ store \in SysStores
    /\ dbUp = TRUE
    /\ lock = None
    /\ wpc = [w \in Writers |-> "idle"]
    /\ wmsg = [w \in Writers |-> NoMessage]
    /\ pending = [w \in Writers |-> None]
    /\ wout = [w \in Writers |-> "none"]
    /\ tz = 0
    /\ clock = 1
    /\ InitDigestIdle
    /\ InitExtractIdle
    /\ mode \in Modes
    /\ mpc = "start"
    /\ handler = FALSE
    /\ scheduled = FALSE
    /\ inbox = <<>>
    /\ arrived = {}
    /\ handled = <<>>
    /\ lastJob = "none"

\* main, lines 213-224, up to the await of the mode's function.  run_ingest
\* (169-176) calls init_db and registers the NewMessage handler;
\* run_scheduler (188-199) calls init_db, adds the cron job and starts the
\* scheduler, and registers no handler; run_digest is left to RunDigest.
\* init_db on an unreachable database raises out of main.
MainStart ==
    /\ mpc = "start"
    /\ IF mode = "digest"
       THEN /\ mpc' = "running"
            /\ UNCHANGED <<handler, scheduled>>
       ELSE IF ~dbUp
       THEN /\ mpc' = "crashed"
            /\ UNCHANGED <<handler, scheduled>>
       ELSE /\ mpc' = "running"
            /\ handler' = (mode = "ingest")
            /\ scheduled' = (mode = "schedule")
    /\ UNCHANGED <<mode, inbox, arrived, handled, lastJob,
                   storeVars, timeVars, digestVars, extractVars>>

\* The client receives a NewMessage update while connected: a call of every
\* registered handler is queued; without a handler the update is dropped.
Deliver(message) ==
    /\ mpc = "running"
    /\ EventKey(message) \notin arrived
    /\ arrived' = arrived \cup {EventKey(message)}
    /\ inbox' = IF handler THEN Append(inbox, message) ELSE inbox
    /\ UNCHANGED <<mode, mpc, handler, scheduled, handled, lastJob,
                   storeVars, timeVars, digestVars, extractVars>>

\* handler(event), line 173: store_message(event.message).
HandlerPut ==
    /\ mpc = "running"
    /\ inbox # <<>>
    /\ wpc[Handler] = "idle"
    /\ wout[Handler] = "none"
    /\ StoreCall(Handler, Head(inbox))

\* The handler call ends: store_message returned, or it raised and the
\* client's update dispatcher caught and logged the exception ("Unhandled
\* exception on handler"); the dispatcher goes on with the next update.
HandlerEnd_mut ==
    /\ mpc = "running"
    /\ inbox # <<>>
    /\ wpc[Handler] = "idle"
    /\ wout[Handler] # "none"
    /\ handled' = Append(handled, [key |-> EventKey(Head(inbox)),
                                   out |-> wout[Handler]])
    /\ inbox' = Tail(inbox)
    /\ wout' = [wout EXCEPT ![Handler] = "none"]
    /\ mpc' = IF wout[Handler] = "raised" THEN "crashed" ELSE mpc
    /\ UNCHANGED <<store, dbUp, lock, wpc, wmsg, pending,
                   mode, handler, scheduled, arrived, lastJob,
                   timeVars, digestVars, extractVars>>

HandlerEnd ==
    /\ mpc = "running"
    /\ inbox # <<>>
    /\ wpc[Handler] = "idle"
    /\ wout[Handler] # "none"
    /\ handled' = Append(handled, [key |-> EventKey(Head(inbox)),
                                   out |-> wout[Handler]])
    /\ inbox' = Tail(inbox)
    /\ wout' = [wout EXCEPT ![Handler] = "none"]
    /\ UNCHANGED <<store, dbUp, lock, wpc, wmsg, pending,
                   mode, mpc, handler, scheduled, arrived, lastJob,
                   timeVars, digestVars, extractVars>>

\* store_message in the second process.
PeerPut(message) == StoreCall(Peer, message)

\* main in mode "digest", line 217: run_digest is awaited once.
DigestOnce ==
    /\ mode = "digest"
    /\ mpc = "running"
    /\ RunDigest

\* The scheduler's cron trigger fires and the job run_digest is started.
CronFire ==
    /\ scheduled
    /\ mpc = "running"
    /\ RunDigest

\* The job has ended: the scheduler's executor records the run as executed,
\* or catches the exception of run_digest and records an error ("Job raised
\* an exception"); the job stays scheduled.
JobEnd_mut ==
    /\ scheduled
    /\ dpc \in {"done", "failed"}
    /\ lastJob' = IF dpc = "done" THEN "ok" ELSE "error"
    /\ scheduled' = (dpc = "done")
    /\ dpc' = "idle"
    /\ since' = NoDate
    /\ rows' = <<>>
    /\ ri' = 0
    /\ tickers' = <<>>
    /\ ticker_counts' = <<>>
    /\ ticker_samples' = <<>>
    /\ digest' = <<>>
    /\ UNCHANGED <<sent, mode, mpc, handler, inbox, arrived, handled,
                   storeVars, timeVars, extractVars>>

JobEnd ==
    /\ scheduled
    /\ dpc \in {"done", "failed"}
    /\ lastJob' = IF dpc = "done" THEN "ok" ELSE "error"
    /\ dpc' = "idle"
    /\ since' = NoDate
    /\ rows' = <<>>
    /\ ri' = 0
    /\ tickers' = <<>>
    /\ ticker_counts' = <<>>
    /\ ticker_samples' = <<>>
    /\ digest' = <<>>
    /\ UNCHANGED <<sent, mode, mpc, handler, scheduled, inbox, arrived, handled,
                   storeVars, timeVars, extractVars>>

\* main in mode "digest": run_digest returned and main ends, or run_digest
\* raised and the exception leaves main.
MainExit ==
    /\ mode = "digest"
    /\ mpc = "running"
    /\ dpc \in {"done", "failed"}
    /\ mpc' = IF dpc = "done" THEN "exited" ELSE "crashed"
    /\ UNCHANGED <<mode, handler, scheduled, inbox, arrived, handled, lastJob,
                   storeVars, timeVars, digestVars, extractVars>>

\* The steps of store_message after sqlite3.connect.
StoreStep(w) ==
    \/ StoreInsert(w)
    \/ StoreBusy(w)
    \/ StoreCommit(w)
    \/ StoreFail(w)

NextSystem ==
    \/ MainStart
    \/ \E message \in SysMessages : Deliver(message)
    \/ HandlerPut
    \/ HandlerEnd
    \/ \E message \in PeerMessages : PeerPut(message)
    \/ \E w \in Writers : StoreInsert(w)
    \/ \E w \in Writers : StoreBusy(w)
    \/ \E w \in Writers : StoreCommit(w)
    \/ \E w \in Writers : StoreFail(w)
    \/ DigestOnce
    \/ CronFire
    \/ LoadRows
    \/ LoadFail
    \/ NextRow
    \/ CountTicker
    \/ RenderDigest
    \/ SendDigest
    \/ SendFail
    \/ JobEnd
    \/ MainExit
    \/ DbDown
    \/ DbBack

SpecSystem == InitSystem /\ [][NextSystem]_vars

\* build_digest goes on: it loads the rows or fails to (LoadRows, LoadFail),
\* its outer loop takes up the next row (NextRow) or, the rows being used up,
\* the report is rendered (RenderDigest).  Told by the positions alone: the
\* steps of NextSystem that satisfy LoopTurn are those four, and it is
\* enabled exactly when one of them is (LoopTurnIsTheLoop).
loopPos == <<dpc, ri>>

LoopTurn ==
    \/ /\ dpc = "load"
       /\ dpc' \in {"aggregate", "failed"}
       /\ ri' = 0
    \/ /\ dpc = "aggregate"
       /\ tickers = <<>>
       /\ \/ ri < Len(rows) /\ ri' = ri + 1 /\ dpc' = dpc
          \/ ri = Len(rows) /\ ri' = ri /\ dpc' = "send"

LoopTurnIsTheLoop ==
    [][ (LoopTurn /\ loopPos' # loopPos)
            <=> (LoadRows \/ LoadFail \/ NextRow \/ RenderDigest) ]_vars

\* Scheduling: a started main goes on; the event loop runs every queued
\* handler call and every statement of store_message to its end; the cron
\* trigger keeps firing, a started run_digest runs to its end and the
\* scheduler takes up the end of the job; the second process runs its
\* store_message calls to their end.
SpecSystemFair ==
    /\ SpecSystem
    /\ WF_vars(MainStart)
    /\ WF_vars(HandlerPut \/ HandlerEnd \/ StoreStep(Handler))
    /\ WF_vars(StoreStep(Peer))
    /\ WF_vars(DigestOnce \/ CronFire \/ CountTicker \/ SendDigest \/ SendFail
                   \/ JobEnd \/ MainExit)
    /\ WF_loopPos(LoopTurn)

\* ================================================================ claims
IsLetter(c) == IsUpperLatin(c) \/ IsLowerLatin(c)

AbsentOrEmpty(text) == text = <<>> \/ text = << <<>> >>

\* The words of s: its maximal runs of Latin letters, left to right.
RECURSIVE LetterRuns(_, _, _)
LetterRuns(s, i, cur) ==
    LET flush == IF cur = <<>> THEN <<>> ELSE <<cur>>
    IN IF i > Len(s) THEN flush
       ELSE IF IsLetter(s[i]) THEN LetterRuns(s, i + 1, Append(cur, s[i]))
       ELSE flush \o LetterRuns(s, i + 1, <<>>)

Words(s) == LetterRuns(s, 1, <<>>)

RECURSIVE IsSubseq(_, _)
IsSubseq(a, b) ==
    IF a = <<>> THEN TRUE
    ELSE IF b = <<>> THEN FALSE
    ELSE IF Head(a) = Head(b) THEN IsSubseq(Tail(a), Tail(b))
    ELSE IsSubseq(a, Tail(b))

BTC == <<"B","T","C">>
ETH == <<"E","T","H">>

SameKey(a, b) == a.chat_id = b.chat_id /\ a.message_id = b.message_id

RowsWithKey(table, row) == {k \in 1..Len(table) : SameKey(table[k], row)}

\* C1: in every state reached by any sequence of store_message calls the
\* table holds at most one row for each (chat_id, message_id) pair.
C1_UniquePair ==
    \A a, b \in 1..Len(store) : a # b => ~SameKey(store[a], store[b])

\* A redelivery is being ignored: the pair of the message in flight is
\* already in a table of several rows and the statement added nothing.
C1_Witness ==
    /\ Len(store) >= 2
    /\ \E w \in Writers :
          /\ wpc[w] = "commit"
          /\ pending[w] = <<[del |-> {}, ins |-> <<>>]>>
          /\ RowsWithKey(store, RowOf(wmsg[w])) # {}

\* C2: when store_message calls for the same pair run concurrently, no two
\* open transactions hold a row for one pair, no open transaction holds a row
\* for a pair the table already has, and a call that commits leaves exactly
\* one row for its pair: check and insert are one step under the write lock.
C2_AtomicCheckInsert ==
    [][ /\ \A w1, w2 \in Writers :
              (w1 # w2 /\ pending[w1] # <<>> /\ pending[w2] # <<>>)
                  => \A r1 \in Range(pending[w1][1].ins),
                        r2 \in Range(pending[w2][1].ins) : ~SameKey(r1, r2)
        /\ \A w \in Writers :
              pending[w] # <<>> =>
                  \A r \in Range(pending[w][1].ins) : RowsWithKey(store, r) = {}
        /\ \A w \in Writers :
              (wpc[w] = "commit" /\ wpc'[w] = "idle" /\ wout'[w] = "returned")
                  => Cardinality(RowsWithKey(store', RowOf(wmsg[w]))) = 1 ]_vars

\* Two calls for the same pair are in flight at once: one has inserted and
\* not yet committed, the other has opened its connection.
C2_Witness ==
    \E w1, w2 \in Writers :
        /\ w1 # w2
        /\ wpc[w1] = "commit" /\ pending[w1][1].ins # <<>>
        /\ wpc[w2] = "insert"
        /\ SameKey(RowOf(wmsg[w1]), RowOf(wmsg[w2]))

\* C3: the first write wins and rows are immutable: every step leaves every
\* stored row where it is with all its fields, whatever later call is made
\* (a call with the same pair and other fields included), and removes none.
C3_FirstWriteWins ==
    [][ /\ Len(store') >= Len(store)
        /\ \A k \in 1..Len(store) : store'[k] = store[k] ]_vars

\* A call with a stored pair and different title, sender, date and text has
\* run its statement.
C3_Witness ==
    \E w \in Writers :
        /\ wpc[w] = "commit"
        /\ \E k \in 1..Len(store) :
              /\ SameKey(store[k], RowOf(wmsg[w]))
              /\ store[k].chat_title # wmsg[w].chat_title
              /\ store[k].sender_id # wmsg[w].sender_id
              /\ store[k].message_date # RowOf(wmsg[w]).message_date
              /\ store[k].text # wmsg[w].message

\* C4: a store_message call whose text is absent or empty is a no-op that
\* does not fail: it returns at once, reachable database or not, and leaves
\* the table, the write lock and every open transaction as they were.
C4_EmptyTextNoOp ==
    [][ \A w \in Writers, m \in Messages :
            (AbsentOrEmpty(m.message) /\ StoreCall(w, m))
                => /\ store' = store
                   /\ pending' = pending
                   /\ lock' = lock
                   /\ wpc'[w] = "idle"
                   /\ wout'[w] = "returned" ]_vars

\* A call has returned although the table is still empty and the database
\* is unreachable: only a call with absent or empty text does that.
C4_Witness ==
    /\ store = <<>>
    /\ ~dbUp
    /\ \E w \in Writers : wout[w] = "returned" /\ wpc[w] = "idle"

\* The instant a stored message_date or a datetime denotes, as [sec, us] on
\* the UTC time line.
DigitVal(c) == CHOOSE d \in 0..9 : Digits[d + 1] = c
Num2(t, i) == 10 * DigitVal(t[i]) + DigitVal(t[i + 1])

InstantOfText(t) ==
    [sec |-> (Num2(t, 9) - 1) * 86400 + Num2(t, 12) * 3600 + Num2(t, 15) * 60
                 + Num2(t, 18),
     us |-> IF Len(t) >= 26 /\ t[20] = "."
            THEN 10000 * Num2(t, 21) + 100 * Num2(t, 23) + Num2(t, 25)
            ELSE 0]

\* since is a naive local time: its instant lies tz seconds earlier on the
\* UTC time line.
SinceInstant == [sec |-> since.sec - tz, us |-> since.us]

InstantGeq(a, b) == a.sec > b.sec \/ (a.sec = b.sec /\ a.us >= b.us)

InWindow(row) == InstantGeq(InstantOfText(row.message_date), SinceInstant)

Triple(row) ==
    [chat_title |-> row.chat_title, message_date |-> row.message_date,
     text |-> row.text]

Occurrences(seq, x) == Cardinality({k \in 1..Len(seq) : seq[k] = x})

RowsLoaded == dpc \in {"aggregate", "send", "done", "failed"}

\* C5: load_messages_since returns exactly the stored rows whose timestamp is
\* at or after since, in ascending timestamp order (a row at since itself
\* included, a row one instant earlier excluded), for message dates as
\* store_message writes them and since as run_digest computes it.
C5_WindowInclusive ==
    RowsLoaded =>
        /\ \A k \in 1..Len(store) :
              Occurrences(rows, Triple(store[k]))
                  = IF InWindow(store[k])
                    THEN Cardinality({j \in 1..Len(store) :
                                         Triple(store[j]) = Triple(store[k])})
                    ELSE 0
        /\ \A k \in 1..Len(rows) : \E j \in 1..Len(store) : rows[k] = Triple(store[j])
        /\ \A a, b \in 1..Len(rows) :
              a < b => InstantGeq(InstantOfText(rows[b].message_date),
                                  InstantOfText(rows[a].message_date))

\* On a host whose local time is UTC the window is exact.
WindowExactInUtc == tz = 0 => C5_WindowInclusive

\* C6 (as stated): extract("Buy $BTC and $ETH now, $BTC again") returns exactly
\* ["BTC","ETH","BTC"]: order of occurrence kept, duplicates kept, nothing else.
C6_Original ==
    (xpc = "done" /\ xtext = Some(TextBtcEth)) => xresult = <<BTC, ETH, BTC>>

\* C6 (amended): extract("Buy $BTC and $ETH now, $BTC again") returns exactly
\* ["BUY","BTC","ETH","NOW","BTC","AGAIN"]: the text is uppercased first, so
\* every 2-6 letter word is a token; order of occurrence and duplicates are
\* kept and only the stopword AND is dropped.
C6_ExtractExample ==
    (xpc = "done" /\ xtext = Some(TextBtcEth))
        => xresult = << <<"B","U","Y">>, BTC, ETH, <<"N","O","W">>, BTC,
                        <<"A","G","A","I","N">> >>

C6_Witness == xpc = "done" /\ xtext = Some(TextBtcEth) /\ Len(xresult) = 6

\* C7: for every input text (empty and absent included) extract returns, and
\* every token returned is a whole word of the uppercased text made of 2 to 6
\* capital Latin letters and not a stopword; the tokens are, in order, words
\* of the text, so a word shorter than 2 or longer than 6 letters (or a part
\* of one) never contributes a token.  Empty or absent input gives no token.
C7_TokensWellFormed ==
    xpc = "done" =>
        /\ \A i \in 1..Len(xresult) :
              /\ Len(xresult[i]) \in 2..6
              /\ \A j \in 1..Len(xresult[i]) : IsUpperLatin(xresult[i][j])
              /\ xresult[i] \notin STOPWORDS
        /\ AbsentOrEmpty(xtext) => xresult = <<>>
        /\ ~AbsentOrEmpty(xtext) => IsSubseq(xresult, Words(upper(xtext[1])))

C7_Witness ==
    /\ xpc = "done"
    /\ xtext = Some(TextMixed)
    /\ xresult = <<ETH>>
    /\ \E i \in 1..3 : Len(Words(xtext[1])[i]) > 6
    /\ \E i \in 1..3 : Len(Words(xtext[1])[i]) < 2

\* build_digest has returned its report to run_digest.
Rendered == dpc = "send"

TickerLines(report) == SelectSeq(report, LAMBDA line : line.kind = "ticker")
SampleLines(report) == SelectSeq(report, LAMBDA line : line.kind = "sample")

\* Every symbol extract returns for the given rows, in row order.
AllOccurrences(rs) ==
    Concat([k \in 1..Len(rs) |->
               extract_tickers(IF rs[k].text = <<>> THEN << <<>> >> ELSE rs[k].text)])

FirstIndex(seq, x) == CHOOSE k \in 1..Len(seq) : seq[k] = x /\ \A j \in 1..(k - 1) : seq[j] # x

\* listed: the ticker lines of a report; occ: the symbols counted, in the
\* order of counting; first: the position at which each was first counted.
RankedTop(listed, occ, first) ==
    LET counted == DOMAIN first
        shown == {listed[k].ticker : k \in 1..Len(listed)}
    IN /\ Len(listed) <= 15
       /\ Len(listed) = IF Cardinality(counted) < 15 THEN Cardinality(counted) ELSE 15
       /\ shown \subseteq counted
       /\ \A a, b \in 1..Len(listed) :
             a < b =>
                 /\ listed[a].ticker # listed[b].ticker
                 /\ listed[a].count >= listed[b].count
                 /\ listed[a].count = listed[b].count
                        => first[listed[a].ticker] < first[listed[b].ticker]
       /\ \A t \in counted \ shown : \A k \in 1..Len(listed) :
             Occurrences(occ, t) <= listed[k].count

\* C8: the report lists at most 15 symbols (all of them when fewer were
\* counted), by count descending; symbols with equal counts appear in the
\* order in which row processing first counted them; and every symbol left
\* out has a count no greater than that of every symbol listed.
C8_TopFifteenRanked ==
    Rendered =>
        \A listed \in {TickerLines(digest)}, occ \in {AllOccurrences(rows)} :
            \A first \in {[t \in Range(occ) |-> FirstIndex(occ, t)]} :
                RankedTop(listed, occ, first)

\* More than 15 symbols were counted, with different and with equal counts,
\* and the report lists 15 of them.
C8_Witness ==
    /\ Rendered
    /\ \E listed \in {TickerLines(digest)} :
          /\ Len(listed) = 15
          /\ listed[1].count > listed[2].count
          /\ listed[2].count = listed[15].count
          /\ Cardinality(Range(AllOccurrences(rows))) > 15

\* C9: for every symbol in the report, the count shown is the number of
\* occurrences of the symbol that extract returns over all stored rows whose
\* timestamp is at or after since, repeated occurrences in one row counted
\* one by one.
C9_CountsMatchWindow ==
    Rendered =>
        \A listed \in {TickerLines(digest)},
           occ \in {AllOccurrences(SelectSeq(store, InWindow))} :
            \A k \in 1..Len(listed) :
                listed[k].count = Occurrences(occ, listed[k].ticker)

\* On a host whose local time is UTC the counts are those of the window.
CountsExactInUtc == tz = 0 => C9_CountsMatchWindow

\* C10: every symbol of the rendered report has at most 3 sample lines, and
\* every sample is at most 160 characters long and holds no newline.
C10_SamplesBounded ==
    Rendered =>
        /\ \A k \in 1..(Len(digest) - 3) :
              ~(\A j \in k..(k + 3) : digest[j].kind = "sample")
        /\ \A k \in 1..Len(digest) :
              digest[k].kind = "sample" =>
                  /\ Len(digest[k].sample) <= 160
                  /\ \A j \in 1..Len(digest[k].sample) : digest[k].sample[j] # "\n"

\* A symbol counted four times in a row of more than 160 characters with a
\* line break in it: the report shows it with three samples of 160 characters.
C10_Witness ==
    /\ Rendered
    /\ \E k \in 1..(Len(digest) - 3) :
          /\ digest[k].kind = "ticker" /\ digest[k].count >= 4
          /\ \A j \in (k + 1)..(k + 3) :
                digest[j].kind = "sample" /\ Len(digest[j].sample) = 160
    /\ \E k \in 1..Len(rows) :
          /\ Len(rows[k].text[1]) > 160
          /\ \E j \in 2..(Len(rows[k].text[1]) - 4) : rows[k].text[1][j] = "\n"

\* The symbols extract returns for each of the given rows.
SymbolsOfRows(rs) ==
    [j \in 1..Len(rs) |->
        Range(extract_tickers(IF rs[j].text = <<>> THEN << <<>> >> ELSE rs[j].text))]

\* What a row shows as a sample: its text without the surrounding blanks,
\* line feeds turned into blanks, cut at 160 characters.
SampleOfRow(row) ==
    LET t == strip(IF row.text = <<>> THEN <<>> ELSE row.text[1])
        n == IF Len(t) < 160 THEN Len(t) ELSE 160
    IN [i \in 1..n |-> IF t[i] = "\n" THEN " " ELSE t[i]]

\* list is made of samples of rows that mention ticker, taken in row order.
InRowOrder(list, ticker, rs, symbols) ==
    \E idx \in [1..Len(list) -> 1..Len(rs)] :
        /\ \A a \in 1..Len(list) :
              /\ list[a] = SampleOfRow(rs[idx[a]])
              /\ ticker \in symbols[idx[a]]
        /\ \A a, b \in 1..Len(list) : a < b => idx[a] <= idx[b]

PairwiseDistinct(list) == \A a, b \in 1..Len(list) : a # b => list[a] # list[b]

\* C11: the samples recorded for one symbol in one run of build_digest are
\* pairwise distinct preview strings, listed in the chronological order of
\* the rows they come from.
C11_SamplesDistinctInOrder ==
    Rendered =>
        \A symbols \in {SymbolsOfRows(rows)} :
            \A k \in 1..Len(ticker_samples) :
                /\ PairwiseDistinct(ticker_samples[k].samples)
                /\ InRowOrder(ticker_samples[k].samples, ticker_samples[k].ticker,
                              rows, symbols)

\* The order alone: the samples of a symbol follow the rows (which
\* load_messages_since returns by ascending message_date).
SamplesInRowOrder ==
    Rendered =>
        \A symbols \in {SymbolsOfRows(rows)} :
            \A k \in 1..Len(ticker_samples) :
                InRowOrder(ticker_samples[k].samples, ticker_samples[k].ticker,
                           rows, symbols)

C18_OneNow ==
    (Rendered /\ Len(digest) >= 2 /\ digest[2].kind = "window") =>
        /\ digest[2].since = strftime(since)
        /\ digest[2].now = strftime([since EXCEPT !.sec = since.sec + 86400])

\* The window line always starts at since; it ends 24 hours later when the
\* clock does not pass a minute boundary between the two readings.
WindowLineWhenClockStill ==
    (Rendered /\ Len(digest) >= 2 /\ digest[2].kind = "window") =>
        /\ digest[2].since = strftime(since)
        /\ (NowPool[clock].sec + tz) \div 60 = (since.sec + 86400) \div 60
               => digest[2].now = strftime([since EXCEPT !.sec = since.sec + 86400])

Min(a, b) == IF a < b THEN a ELSE b

\* C20: during and after aggregation the number of samples recorded for
\* every counted symbol is min(count, 3) (the skip of an empty preview is
\* never taken), and every symbol of the report has at least one sample line.
C20_SamplesMatchCount ==
    /\ dpc \in {"aggregate", "send", "done", "failed"} =>
          /\ \A k \in 1..Len(ticker_counts) :
                \E j \in 1..Len(ticker_samples) :
                    /\ ticker_samples[j].ticker = ticker_counts[k].ticker
                    /\ Len(ticker_samples[j].samples) = Min(ticker_counts[k].count, 3)
          /\ Len(ticker_samples) = Len(ticker_counts)
    /\ Rendered =>
          \A k \in 1..Len(digest) :
              digest[k].kind = "ticker" =>
                  k < Len(digest) /\ digest[k + 1].kind = "sample"

\* In the middle of the aggregation one symbol has been counted more than
\* three times and has three samples, another once and has one sample.
C20_Witness ==
    /\ dpc = "aggregate"
    /\ ri < Len(rows)
    /\ \E k \in 1..Len(ticker_counts) :
          ticker_counts[k].count > 3 /\ Len(ticker_samples[k].samples) = 3
    /\ \E k \in 1..Len(ticker_counts) :
          ticker_counts[k].count = 1 /\ Len(ticker_samples[k].samples) = 1

\* The tokenizer on letters: the maximal runs of Latin letters of the text,
\* those of 2 to 6 letters kept in capitals, stopwords dropped.
LetterTokenizer(text) ==
    SelectSeq(Words(upper(text)),
              LAMBDA run : Len(run) \in 2..6 /\ run \notin STOPWORDS)

\* The tokenizer on words: the maximal runs of letters, digits and
\* underscores of the text, those made of 2 to 6 letters and nothing else
\* kept in capitals, stopwords dropped.
IsWordCharacter(c) == IsLetter(c) \/ c \in DigitSet \/ c = "_"

RECURSIVE WordRuns(_, _, _)
WordRuns(s, i, cur) ==
    LET flush == IF cur = <<>> THEN <<>> ELSE <<cur>>
    IN IF i > Len(s) THEN flush
       ELSE IF IsWordCharacter(s[i]) THEN WordRuns(s, i + 1, Append(cur, s[i]))
       ELSE flush \o WordRuns(s, i + 1, <<>>)

WordTokenizer(text) ==
    SelectSeq(WordRuns(upper(text), 1, <<>>),
              LAMBDA run : /\ Len(run) \in 2..6
                           /\ \A j \in 1..Len(run) : IsLetter(run[j])
                           /\ run \notin STOPWORDS)

\* C19 (as stated): for every text over letters, digits, underscore, the
\* markers $ and # and separators, extract_tickers returns the token sequence
\* of the tokenizer on maximal runs of Latin letters.
C19_Original ==
    xpc = "done" =>
        xresult = IF AbsentOrEmpty(xtext) THEN <<>> ELSE LetterTokenizer(xtext[1])

\* C19 (amended): for every such text extract_tickers returns the token
\* sequence of the tokenizer on maximal runs of word characters (letters,
\* digits, underscore) that keeps the runs made of 2 to 6 letters only and
\* drops stopwords; a run of letters next to a digit or an underscore is not
\* a token.  On texts without digits and underscores this is the tokenizer
\* on letters.
C19_PatternIsWordTokenizer ==
    xpc = "done" =>
        /\ xresult = IF AbsentOrEmpty(xtext) THEN <<>> ELSE WordTokenizer(xtext[1])
        /\ (~AbsentOrEmpty(xtext)
            /\ \A j \in 1..Len(xtext[1]) : xtext[1][j] \notin DigitSet \cup {"_"})
               => xresult = LetterTokenizer(xtext[1])

\* "#SOL $ # $$XRP a_BTC ETH9\nDOGE.": BTC follows an underscore and ETH is
\* followed by a digit; the pattern skips both, the tokenizer on letters
\* does not.
C19_Witness ==
    /\ xpc = "done"
    /\ xtext = Some(TextMarkers)
    /\ xresult = << <<"S","O","L">>, <<"X","R","P">>, <<"D","O","G","E">> >>
    /\ LetterTokenizer(xtext[1])
           = << <<"S","O","L">>, <<"X","R","P">>, BTC, ETH, <<"D","O","G","E">> >>

KeyStored(key) ==
    \E k \in 1..Len(store) : <<store[k].chat_id, store[k].message_id>> = key

WithText(messages) == {m \in messages : ~AbsentOrEmpty(m.message)}

\* C13: build_digest and load_messages_since leave the table unchanged, also
\* when a run is interleaved with store_message calls: a step of run_digest
\* changes neither the table nor an open transaction nor the write lock, and
\* every change of the table is the commit of a store_message call, which
\* appends at most its own row.
C13_DigestReadsOnly ==
    [][ /\ digestVars' # digestVars
            => store' = store /\ pending' = pending /\ lock' = lock
        /\ store' # store
            => \E w \in Writers :
                  /\ wpc[w] = "commit" /\ wpc'[w] = "idle"
                  /\ store' = Append(store, RowOf(wmsg[w])) ]_vars

\* A store_message call of the second process has committed a row after
\* build_digest loaded its rows and before it returned.
C13_Witness ==
    /\ dpc = "aggregate"
    /\ ri >= 1
    /\ Len(rows) >= 1
    /\ Len(store) > Len(rows)
    /\ \A k \in 1..Len(store) : ~TextLess(store[k].message_date, isoformat(since))

\* C14: while the database cannot be reached, store_message with a text
\* raises (it returns only on absent or empty text), load_messages_since and
\* with it build_digest and run_digest raise (no rows, no report, nothing
\* sent), and the failed call leaves the table unchanged.
C14_FailureObserved ==
    [][ ~dbUp =>
          /\ \A w \in Writers :
                (wout'[w] = "returned" /\ (wout[w] # "returned" \/ wpc'[w] # wpc[w]))
                    => /\ w = "w1"
                       /\ inbox # <<>>
                       /\ AbsentOrEmpty(Head(inbox).message)
          /\ \A w \in Writers :
                wpc'[w] # wpc[w] => wpc'[w] = "idle" /\ wout'[w] = "raised"
          /\ dpc' # dpc /\ dpc \in {"idle", "load"}
                => /\ dpc' = "failed"
                   /\ rows' = <<>>
                   /\ digest' = <<>>
                   /\ sent' = sent
          /\ dbUp' = dbUp => store' = store ]_vars

\* The database became unreachable after run_digest had computed since: the
\* SELECT raised and no report exists, and a store_message call of the second
\* process raised; the table still holds its rows.
C14_Witness ==
    /\ ~dbUp
    /\ dpc = "failed"
    /\ since # NoDate
    /\ digest = <<>>
    /\ sent = <<>>
    /\ wout["w2"] = "raised"
    /\ store # <<>>

\* C15: in mode "schedule" ingestion and the scheduled digest are both
\* active: every event with a text that arrives while the process is
\* connected is eventually stored.
C15_ScheduleIngests ==
    \A m \in WithText(SysMessages) :
        [](( mode = "schedule" /\ <<m.chat_id, m.id>> \in arrived )
              => <>KeyStored(<<m.chat_id, m.id>>))

\* In mode "ingest" every such event is passed to store_message and is
\* stored unless the call raised.
IngestModeStores ==
    \A m \in WithText(SysMessages) :
        [](( mode = "ingest" /\ <<m.chat_id, m.id>> \in arrived )
              => <>( \/ KeyStored(<<m.chat_id, m.id>>)
                     \/ \E i \in 1..Len(handled) :
                           handled[i] = [key |-> <<m.chat_id, m.id>>,
                                         out |-> "raised"] ))

HandledAs(key, out) ==
    \E i \in 1..Len(handled) : handled[i] = [key |-> key, out |-> out]

\* C16: a storage failure while handling one event affects that event only:
\* after a handler call that raised the process is still running with its
\* handler registered, every event that arrives is passed to store_message,
\* whose call ends, and an event with a text whose call returned is stored.
C16_IngestSurvivesFailure ==
    /\ []( (\E i \in 1..Len(handled) : handled[i].out = "raised")
              => mpc = "running" /\ handler )
    /\ []( \A m \in WithText(SysMessages) :
              HandledAs(<<m.chat_id, m.id>>, "returned")
                  => KeyStored(<<m.chat_id, m.id>>) )
    /\ \A m \in SysMessages :
          []( (mode = "ingest" /\ <<m.chat_id, m.id>> \in arrived)
                 => <>( HandledAs(<<m.chat_id, m.id>>, "returned")
                        \/ HandledAs(<<m.chat_id, m.id>>, "raised") ) )

\* The first event's call raised while the database was unreachable, and a
\* later event was stored after the database had come back.
C16_Witness ==
    /\ mode = "ingest"
    /\ mpc = "running"
    /\ dbUp
    /\ Len(handled) = 2
    /\ handled[1].out = "raised"
    /\ handled[2].out = "returned"
    /\ KeyStored(handled[2].key)
    /\ ~KeyStored(handled[1].key)

\* C17: a run of the scheduled job that fails (the read of the table or the
\* send raised) does not stop the schedule: the job stays scheduled, the
\* failed run ends, and the next tick runs run_digest again, up to the send
\* operation unless that run fails too.
C17_ScheduleSurvivesFailure ==
    /\ []( lastJob = "error" => scheduled /\ mpc = "running" )
    /\ []( (scheduled /\ dpc = "failed") => <>(dpc = "idle" /\ lastJob = "error") )
    /\ []( (dpc = "idle" /\ lastJob = "error") => <>(dpc \in {"load", "failed"}) )
    /\ []( (dpc = "load" /\ lastJob = "error") => <>(dpc \in {"send", "failed"}) )

\* After a failed run a later run has built its report and sent it.
C17_Witness ==
    /\ lastJob = "error"
    /\ dpc = "done"
    /\ digest # <<>>
    /\ sent = <<digest>>

====
